---- MODULE Spec2Model ----
(***************************************************************************)
(* Model of commons::collections::LruCache (src/src/collections.rs).       *)
(*                                                                         *)
(* The cache is the triple (capacity, data, order): data is the HashMap    *)
(* from keys to values, order is the Vec of keys, most recently used       *)
(* first.  Every public method is one action; the private helpers          *)
(* move_to_front and evict_if_needed are operators the actions call.       *)
(*                                                                         *)
(* Four history variables record what the properties talk about:           *)
(*   last     the last call: method, arguments, return value, the cache    *)
(*            before the call and the keys popped by the eviction loop;    *)
(*   clock    the number of calls made so far;                             *)
(*   stamp    for every key, the clock value of its last touch (0: never), *)
(*            the reference model of "last-touch time";                    *)
(*   written  for every key, the value of its latest insert, or 0 when the *)
(*            key was never inserted or has left the cache since.          *)
(*                                                                         *)
(* The second part models commons::retry::retry (src/src/retry.rs); its    *)
(* state is the record rt and its specification is SpecRetry.              *)
(***************************************************************************)
EXTENDS Integers, Sequences, FiniteSets, TLC

VARIABLES capacity, data, order, last, clock, stamp, written, rt, idgen, envs

cacheVars == <<capacity, data, order, last, clock, stamp, written>>

vars == <<capacity, data, order, last, clock, stamp, written, rt, idgen, envs>>

(* Bounds of the model. *)
NumKeys == 3
NumValues == 2
MaxCapacity == 3
MaxSteps == 4
MaxAttempts == 3
NumErrors == 2
NumThreads == 2
MaxIds == 3
MaxMillis == 1
MaxOtherIds == 1

Keys == 1..NumKeys
Values == 1..NumValues
Capacities == 0..MaxCapacity
Errors == 1..NumErrors

(* Option<V>: None is the empty sequence, Some(v) the one-element one. *)
None == << >>
Some(v) == <<v>>

(***************************************************************************)
(* HashMap<K, V> and Vec<K> primitives used by the cache.                  *)
(***************************************************************************)
contains_key(d, key) == key \in DOMAIN d

map_get(d, key) == IF key \in DOMAIN d THEN Some(d[key]) ELSE None

map_insert(d, key, value) ==
    [k \in (DOMAIN d) \cup {key} |-> IF k = key THEN value ELSE d[k]]

map_remove(d, key) == [k \in (DOMAIN d) \ {key} |-> d[k]]

EmptyMap == [k \in {} |-> 0]

(* Variant of position that yields the index after the match. *)
position_one_past(s, key) ==
    IF \E i \in 1..Len(s) : s[i] = key
    THEN 1 + CHOOSE i \in 1..Len(s) : s[i] = key /\ \A j \in 1..(i - 1) : s[j] # key
    ELSE 0

(* Vec::iter().position(|k| k == key): the first index holding key, 0 if none. *)
position(s, key) ==
    IF \E i \in 1..Len(s) : s[i] = key
    THEN CHOOSE i \in 1..Len(s) : s[i] = key /\ \A j \in 1..(i - 1) : s[j] # key
    ELSE 0

(* Vec::remove(pos): the vector without its element at pos. *)
vec_remove(s, pos) == SubSeq(s, 1, pos - 1) \o SubSeq(s, pos + 1, Len(s))

(* Vec::remove(pos) panics when pos is out of bounds. *)
vec_remove_panics(s, pos) == pos < 1 \/ pos > Len(s)

(* Vec::insert(0, key). *)
vec_insert_front(s, key) == <<key>> \o s

(* Vec::insert(index, key) panics when index > len; the index is 0 here. *)
vec_insert_front_panics(s) == 0 > Len(s)

(* The keys of a Vec. *)
KeysOf(s) == {s[i] : i \in 1..Len(s)}

(* Vec::retain(|k| k != key). *)
retain_ne(s, key) == SelectSeq(s, LAMBDA k : k # key)

(* The cache as a value: the three fields of the struct. *)
Cache(c, d, o) == [capacity |-> c, data |-> d, order |-> o]

Self == Cache(capacity, data, order)

(* LruCache::new *)
new(c) == Cache(c, EmptyMap, << >>)

(* LruCache::len and LruCache::is_empty read the map only. *)
len(self) == Cardinality(DOMAIN self.data)

is_empty(self) == DOMAIN self.data = {}

(* Variant of move_to_front that leaves the order alone. *)
move_to_front_noop(self, key) == self

(* Variant of move_to_front that swaps the key with the front element      *)
(* (Vec::swap(0, pos)) instead of shifting the others back by one.         *)
move_to_front_swap(self, key) ==
    LET pos == position(self.order, key)
    IN  IF pos # 0
        THEN Cache(self.capacity, self.data,
                   [i \in 1..Len(self.order) |->
                       IF i = 1 THEN self.order[pos]
                       ELSE IF i = pos THEN self.order[1]
                       ELSE self.order[i]])
        ELSE self

(* LruCache::move_to_front *)
move_to_front(self, key) ==
    LET pos == position(self.order, key)
    IN  IF pos # 0
        THEN Cache(self.capacity, self.data,
                   vec_insert_front(vec_remove(self.order, pos), self.order[pos]))
        ELSE self

(* Whether move_to_front panics: its Vec::remove and Vec::insert(0, _). *)
move_to_front_panics(self, key) ==
    LET pos == position(self.order, key)
    IN  pos # 0 /\ (vec_remove_panics(self.order, pos)
                    \/ vec_insert_front_panics(vec_remove(self.order, pos)))

(* Variant of evict_if_needed that takes capacity 0 to mean "no limit". *)
RECURSIVE evict_if_needed_skip_zero(_, _)
evict_if_needed_skip_zero(self, popped) ==
    IF self.capacity > 0 /\ Len(self.order) > self.capacity
    THEN LET n == Len(self.order)
             key == self.order[n]
         IN  evict_if_needed_skip_zero(Cache(self.capacity,
                                             map_remove(self.data, key),
                                             SubSeq(self.order, 1, n - 1)),
                                       Append(popped, key))
    ELSE [cache |-> self, popped |-> popped]

(* Variant of evict_if_needed whose loop condition is off by one           *)
(* (order.len() > capacity + 1).                                           *)
RECURSIVE evict_if_needed_off_by_one(_, _)
evict_if_needed_off_by_one(self, popped) ==
    IF Len(self.order) > self.capacity + 1
    THEN LET n == Len(self.order)
             key == self.order[n]
         IN  evict_if_needed_off_by_one(Cache(self.capacity,
                                              map_remove(self.data, key),
                                              SubSeq(self.order, 1, n - 1)),
                                        Append(popped, key))
    ELSE [cache |-> self, popped |-> popped]

(* Variant of evict_if_needed that takes its victim from the front of the  *)
(* order (order.remove(0)) instead of the back (order.pop()).              *)
RECURSIVE evict_if_needed_front(_, _)
evict_if_needed_front(self, popped) ==
    IF Len(self.order) > self.capacity
    THEN LET key == self.order[1]
         IN  evict_if_needed_front(Cache(self.capacity,
                                         map_remove(self.data, key),
                                         Tail(self.order)),
                                   Append(popped, key))
    ELSE [cache |-> self, popped |-> popped]

(* Variant of evict_if_needed whose loop also runs when the cache is just  *)
(* full (while self.order.len() >= self.capacity, stopping once the order  *)
(* is empty).                                                              *)
RECURSIVE evict_if_needed_when_full(_, _)
evict_if_needed_when_full(self, popped) ==
    IF Len(self.order) >= self.capacity /\ self.order # << >>
    THEN LET n == Len(self.order)
             key == self.order[n]
         IN  evict_if_needed_when_full(Cache(self.capacity,
                                             map_remove(self.data, key),
                                             SubSeq(self.order, 1, n - 1)),
                                       Append(popped, key))
    ELSE [cache |-> self, popped |-> popped]

(* LruCache::evict_if_needed: the while loop; popped collects the keys the *)
(* loop popped, in the order it popped them.                               *)
RECURSIVE evict_if_needed(_, _)
evict_if_needed(self, popped) ==
    IF Len(self.order) > self.capacity
    THEN LET n == Len(self.order)
             key == self.order[n]
         IN  evict_if_needed(Cache(self.capacity,
                                   map_remove(self.data, key),
                                   SubSeq(self.order, 1, n - 1)),
                             Append(popped, key))
    ELSE [cache |-> self, popped |-> popped]

(* Variant of insert that keeps the stored value of a key already present *)
(* (HashMap::entry(key).or_insert(value)).                                 *)
insert_keep_old(self, key, value) ==
    LET old == map_get(self.data, key)
    IN  IF old # None
        THEN [cache |-> move_to_front(self, key), ret |-> old, popped |-> << >>]
        ELSE LET ev == evict_if_needed(
                           Cache(self.capacity, map_insert(self.data, key, value),
                                 vec_insert_front(self.order, key)),
                           << >>)
             IN  [cache |-> ev.cache, ret |-> None, popped |-> ev.popped]

(* Variant of insert that appends a new key to the back of the order       *)
(* (order.push(key)).                                                      *)
insert_push_back(self, key, value) ==
    LET old == map_get(self.data, key)
        stored == Cache(self.capacity, map_insert(self.data, key, value), self.order)
    IN  IF old # None
        THEN [cache |-> move_to_front(stored, key), ret |-> old, popped |-> << >>]
        ELSE LET ev == evict_if_needed(
                           Cache(stored.capacity, stored.data,
                                 Append(stored.order, key)),
                           << >>)
             IN  [cache |-> ev.cache, ret |-> None, popped |-> ev.popped]

(* Variant of insert that does not promote an overwritten key. *)
insert_no_promote(self, key, value) ==
    LET old == map_get(self.data, key)
        stored == Cache(self.capacity, map_insert(self.data, key, value), self.order)
    IN  IF old # None
        THEN [cache |-> stored, ret |-> old, popped |-> << >>]
        ELSE LET ev == evict_if_needed(
                           Cache(stored.capacity, stored.data,
                                 vec_insert_front(stored.order, key)),
                           << >>)
             IN  [cache |-> ev.cache, ret |-> None, popped |-> ev.popped]

(* LruCache::insert: the cache after the call, the value returned and the  *)
(* keys the eviction loop popped.                                          *)
insert(self, key, value) ==
    LET old == map_get(self.data, key)
        stored == Cache(self.capacity, map_insert(self.data, key, value), self.order)
    IN  IF old # None
        THEN [cache |-> move_to_front(stored, key), ret |-> old, popped |-> << >>]
        ELSE LET ev == evict_if_needed(
                           Cache(stored.capacity, stored.data,
                                 vec_insert_front(stored.order, key)),
                           << >>)
             IN  [cache |-> ev.cache, ret |-> None, popped |-> ev.popped]

(* Variant of get that does not promote the key. *)
get_no_promote(self, key) ==
    IF contains_key(self.data, key)
    THEN [cache |-> self, ret |-> map_get(self.data, key)]
    ELSE [cache |-> self, ret |-> None]

(* Variant of get that records the access in the order before looking the *)
(* key up, so that a miss leaves the key in the order.                     *)
get_track_miss(self, key) ==
    IF contains_key(self.data, key)
    THEN LET moved == move_to_front(self, key)
         IN  [cache |-> moved, ret |-> map_get(moved.data, key)]
    ELSE [cache |-> Cache(self.capacity, self.data,
                          vec_insert_front(self.order, key)),
          ret |-> None]

(* LruCache::get *)
get(self, key) ==
    IF contains_key(self.data, key)
    THEN LET moved == move_to_front(self, key)
         IN  [cache |-> moved, ret |-> map_get(moved.data, key)]
    ELSE [cache |-> self, ret |-> None]

(* Variant of peek that promotes the key as get does. *)
peek_promote(self, key) ==
    [cache |-> move_to_front(self, key), ret |-> map_get(self.data, key)]

(* LruCache::peek *)
peek(self, key) == [cache |-> self, ret |-> map_get(self.data, key)]

(* Variant of remove that drops the front of the order when the key is    *)
(* not held (order.remove(position.unwrap_or(0)) before the lookup).       *)
remove_front_on_miss(self, key) ==
    LET value == map_get(self.data, key)
    IN  IF value # None
        THEN [cache |-> Cache(self.capacity, map_remove(self.data, key),
                              retain_ne(self.order, key)),
              ret |-> value]
        ELSE [cache |-> Cache(self.capacity, self.data,
                              IF self.order = << >> THEN << >> ELSE Tail(self.order)),
              ret |-> None]

(* Variant of remove that forgets the order (no order.retain). *)
remove_keep_order(self, key) ==
    LET value == map_get(self.data, key)
    IN  IF value # None
        THEN [cache |-> Cache(self.capacity, map_remove(self.data, key), self.order),
              ret |-> value]
        ELSE [cache |-> self, ret |-> None]

(* Variant of remove that uses Vec::swap_remove on the order: the last key *)
(* takes the place of the removed one.                                     *)
remove_swap(self, key) ==
    LET value == map_get(self.data, key)
        pos == position(self.order, key)
        n == Len(self.order)
    IN  IF value # None
        THEN [cache |-> Cache(self.capacity, map_remove(self.data, key),
                              [i \in 1..(n - 1) |->
                                  IF i = pos THEN self.order[n] ELSE self.order[i]]),
              ret |-> value]
        ELSE [cache |-> self, ret |-> None]

(* LruCache::remove *)
remove(self, key) ==
    LET value == map_get(self.data, key)
    IN  IF value # None
        THEN [cache |-> Cache(self.capacity, map_remove(self.data, key),
                              retain_ne(self.order, key)),
              ret |-> value]
        ELSE [cache |-> self, ret |-> None]

(* Variant of clear that forgets the order (no order.clear()). *)
clear_keep_order(self) == Cache(self.capacity, EmptyMap, self.order)

(* Variant of clear that rebuilds the cache with capacity 0. *)
clear_reset_capacity(self) == new(0)

(* LruCache::clear *)
clear(self) == Cache(self.capacity, EmptyMap, << >>)

(* Whether a call panics.  insert and get reach Vec::remove and            *)
(* Vec::insert through move_to_front, insert also calls Vec::insert(0, _)  *)
(* for a new key; the HashMap calls, Vec::pop, Vec::retain and Vec::clear  *)
(* of the other methods have no panicking path.                            *)
panics(self, op, key) ==
    CASE op = "insert" ->
            IF contains_key(self.data, key)
            THEN move_to_front_panics(self, key)
            ELSE vec_insert_front_panics(self.order)
      [] op = "get" ->
            contains_key(self.data, key) /\ move_to_front_panics(self, key)
      [] OTHER -> FALSE

(***************************************************************************)
(* The cache's state machine: one action per public method.                *)
(***************************************************************************)
(* rt while no retry call is under way. *)
RetryIdle == [pc |-> "idle"]

IdIdle == [pc |-> "idle"]

EnvIdle == [pc |-> "idle"]

Call(op, key, value, ret, popped) ==
    [op |-> op, key |-> key, value |-> value, ret |-> ret,
     pre |-> Self, popped |-> popped]

Install(cache) ==
    /\ capacity' = cache.capacity
    /\ data' = cache.data
    /\ order' = cache.order

Touch(key) == stamp' = [stamp EXCEPT ![key] = clock + 1]

Init ==
    /\ \E c \in Capacities :
          /\ capacity = new(c).capacity
          /\ data = new(c).data
          /\ order = new(c).order
    /\ last = [op |-> "new", key |-> 0, value |-> 0, ret |-> None,
               pre |-> new(capacity), popped |-> << >>]
    /\ clock = 0
    /\ stamp = [k \in Keys |-> 0]
    /\ written = [k \in Keys |-> 0]
    /\ rt = RetryIdle
    /\ idgen = IdIdle
    /\ envs = EnvIdle

Insert ==
    /\ clock < MaxSteps
    /\ \E key \in Keys, value \in Values :
          \E r \in {insert(Self, key, value)} :
              /\ Install(r.cache)
              /\ last' = Call("insert", key, value, r.ret, r.popped)
              /\ Touch(key)
              /\ written' = [k \in Keys |->
                                IF k \in KeysOf(r.popped) THEN 0
                                ELSE IF k = key THEN value
                                ELSE written[k]]
    /\ clock' = clock + 1
    /\ UNCHANGED <<rt, idgen, envs>>

Get ==
    /\ clock < MaxSteps
    /\ \E key \in Keys :
          \E r \in {get(Self, key)} :
              /\ Install(r.cache)
              /\ last' = Call("get", key, 0, r.ret, << >>)
              /\ IF key \in DOMAIN data THEN Touch(key) ELSE UNCHANGED stamp
    /\ clock' = clock + 1
    /\ UNCHANGED <<written, rt, idgen, envs>>

Peek ==
    /\ clock < MaxSteps
    /\ \E key \in Keys :
          \E r \in {peek(Self, key)} :
              /\ Install(r.cache)
              /\ last' = Call("peek", key, 0, r.ret, << >>)
    /\ clock' = clock + 1
    /\ UNCHANGED <<stamp, written, rt, idgen, envs>>

Remove ==
    /\ clock < MaxSteps
    /\ \E key \in Keys :
          \E r \in {remove(Self, key)} :
              /\ Install(r.cache)
              /\ last' = Call("remove", key, 0, r.ret, << >>)
              /\ written' = [written EXCEPT ![key] = 0]
    /\ clock' = clock + 1
    /\ UNCHANGED <<stamp, rt, idgen, envs>>

Length ==
    /\ clock < MaxSteps
    /\ last' = Call("len", 0, 0, Some(len(Self)), << >>)
    /\ clock' = clock + 1
    /\ UNCHANGED <<capacity, data, order, stamp, written, rt, idgen, envs>>

IsEmpty ==
    /\ clock < MaxSteps
    /\ last' = Call("is_empty", 0, 0, Some(is_empty(Self)), << >>)
    /\ clock' = clock + 1
    /\ UNCHANGED <<capacity, data, order, stamp, written, rt, idgen, envs>>

Clear ==
    /\ clock < MaxSteps
    /\ Install(clear(Self))
    /\ last' = Call("clear", 0, 0, None, << >>)
    /\ written' = [k \in Keys |-> 0]
    /\ clock' = clock + 1
    /\ UNCHANGED <<stamp, rt, idgen, envs>>

Next == Insert \/ Get \/ Peek \/ Remove \/ Length \/ IsEmpty \/ Clear

Spec == Init /\ [][Next]_vars

(***************************************************************************)
(* Vocabulary of the properties.                                           *)
(***************************************************************************)
NoDuplicates(s) == \A i, j \in 1..Len(s) : s[i] = s[j] => i = j

(* a comes before b in s. *)
Before(s, a, b) == \E i, j \in 1..Len(s) : i < j /\ s[i] = a /\ s[j] = b

(* The keys of K stand in the same relative order in s and in t. *)
SameRelativeOrder(s, t, K) ==
    \A a, b \in K : Before(s, a, b) <=> Before(t, a, b)

Held == DOMAIN data
HeldBefore == DOMAIN last.pre.data

InsertedAbsent == last.op = "insert" /\ last.key \notin HeldBefore
InsertedPresent == last.op = "insert" /\ last.key \in HeldBefore
Overflowed == InsertedAbsent /\ len(last.pre) + 1 > capacity

(* The keys the last call removed from the map. *)
Dropped == (HeldBefore \cup {last.key}) \ Held

(* C1: after every operation on a cache built by new(c), len() <= c. *)
C1_CapacityBound == len(Self) <= capacity

(* An insert into a full cache of capacity >= 1 evicted a key. *)
C1_Witness ==
    /\ Overflowed
    /\ capacity >= 1
    /\ len(Self) = capacity
    /\ last.popped # << >>

(* C2: after every operation the keys of data are exactly the keys of      *)
(* order, no key occurs twice in order, and data.len() == order.len().     *)
C2_Bijection ==
    /\ KeysOf(order) = Held
    /\ NoDuplicates(order)
    /\ Cardinality(Held) = Len(order)

(* A remove of a held key left other keys behind. *)
C2_Witness ==
    /\ last.op = "remove"
    /\ last.key \in HeldBefore
    /\ Len(order) >= 2

(* C3 as stated: whenever an insert of an absent key makes the entry count *)
(* exceed the capacity, the entry removed is the key held before the       *)
(* insert whose last touch is the oldest.                                  *)
C3_LruVictim_AsStated ==
    Overflowed =>
        \E victim \in HeldBefore :
            /\ Dropped = {victim}
            /\ \A k \in HeldBefore : stamp[victim] <= stamp[k]

(* C3, amended: the same for a cache of capacity >= 1 (with capacity 0 the *)
(* entry removed is the inserted one, and no key was held before).         *)
C3_LruVictim ==
    (Overflowed /\ capacity >= 1) =>
        \E victim \in HeldBefore :
            /\ Dropped = {victim}
            /\ \A k \in HeldBefore : stamp[victim] <= stamp[k]

(* An overflow in a cache of capacity >= 2 whose victim was at the back of *)
(* the order and was not touched by the first call.                        *)
C3_Witness ==
    /\ Overflowed
    /\ capacity >= 2
    /\ \E victim \in HeldBefore :
          /\ Dropped = {victim}
          /\ stamp[victim] >= 2
          /\ \E k \in HeldBefore : stamp[k] > stamp[victim]
          /\ last.pre.order[Len(last.pre.order)] = victim

(* C4: order lists exactly the held keys from the most recently touched to *)
(* the least recently touched, a touch of k being an insert of k or a get  *)
(* hit on k; stamp is the reference model of the last touch.               *)
C4_RecencyIsLastTouch ==
    /\ KeysOf(order) = Held
    /\ \A i, j \in 1..Len(order) : i < j => stamp[order[i]] > stamp[order[j]]

(* A get hit promoted a key from the middle of a cache of three keys whose *)
(* order was no longer the order of first insertion.                       *)
C4_Witness ==
    /\ last.op = "get"
    /\ last.key \in HeldBefore
    /\ Len(order) >= 3
    /\ last.pre.order[2] = last.key
    /\ order[2] < order[3]

(* C5: insert on a present key returns the previous value, stores the new  *)
(* one, puts the key at the most recently used position, leaves len()      *)
(* unchanged and removes no other key.                                     *)
C5_InsertPresent ==
    InsertedPresent =>
        /\ last.ret = Some(last.pre.data[last.key])
        /\ last.key \in Held /\ data[last.key] = last.value
        /\ order # << >> /\ order[1] = last.key
        /\ len(Self) = len(last.pre)
        /\ HeldBefore \subseteq Held

(* An overwrite with a different value of the oldest key of a full cache. *)
C5_Witness ==
    /\ InsertedPresent
    /\ len(last.pre) = capacity
    /\ capacity >= 2
    /\ last.pre.order[Len(last.pre.order)] = last.key
    /\ last.pre.data[last.key] # last.value

Min(a, b) == IF a < b THEN a ELSE b

(* C6: insert on an absent key returns None; when capacity >= 1 the key is *)
(* then held at the most recently used position with the given value, one  *)
(* other entry was removed if the cache held capacity entries before and   *)
(* none otherwise, and the new len is min(old len + 1, capacity).          *)
C6_InsertAbsent ==
    InsertedAbsent =>
        /\ last.ret = None
        /\ capacity >= 1 =>
              /\ last.key \in Held /\ data[last.key] = last.value
              /\ order # << >> /\ order[1] = last.key
              /\ Dropped \subseteq HeldBefore
              /\ Cardinality(Dropped) = IF len(last.pre) = capacity THEN 1 ELSE 0
              /\ len(Self) = Min(len(last.pre) + 1, capacity)

(* An insert of an absent key into a cache of capacity >= 2 that was full. *)
C6_Witness ==
    /\ InsertedAbsent
    /\ capacity >= 2
    /\ len(last.pre) = capacity
    /\ Cardinality(Dropped) = 1

(* C7: get on a present key returns its stored value and moves the key to  *)
(* the most recently used position; the stored values, the set of keys and *)
(* the relative order of all other keys are unchanged.                     *)
C7_GetHit ==
    (last.op = "get" /\ last.key \in HeldBefore) =>
        /\ last.ret = Some(last.pre.data[last.key])
        /\ order # << >> /\ order[1] = last.key
        /\ data = last.pre.data
        /\ KeysOf(order) = KeysOf(last.pre.order)
        /\ Len(order) = Len(last.pre.order)
        /\ SameRelativeOrder(order, last.pre.order, Held \ {last.key})

(* A get hit on the last of three held keys. *)
C7_Witness ==
    /\ last.op = "get"
    /\ last.key \in HeldBefore
    /\ Len(last.pre.order) >= 3
    /\ last.pre.order[Len(last.pre.order)] = last.key

(* C8: get on an absent key returns None and leaves the value map, the     *)
(* recency sequence and the capacity unchanged.                            *)
C8_GetMiss ==
    (last.op = "get" /\ last.key \notin HeldBefore) =>
        /\ last.ret = None
        /\ Self = last.pre

(* A get miss on a cache that holds other keys. *)
C8_Witness ==
    /\ last.op = "get"
    /\ last.key \notin HeldBefore
    /\ HeldBefore # {}

(* C9: peek returns what a get of that key would return and leaves the     *)
(* whole cache unchanged, so that every later insert evicts as if the peek *)
(* had not happened.                                                       *)
C9_PeekPure ==
    last.op = "peek" =>
        /\ last.ret = get(last.pre, last.key).ret
        /\ Self = last.pre
        /\ \A key \in Keys, value \in Values :
              insert(Self, key, value) = insert(last.pre, key, value)

(* A peek hit on the oldest key of a full cache of capacity >= 2, which    *)
(* the next insert of an absent key evicts.                                *)
C9_Witness ==
    /\ last.op = "peek"
    /\ last.ret # None
    /\ capacity >= 2
    /\ len(Self) = capacity
    /\ \E key \in Keys \ Held : insert(Self, key, 1).popped = <<last.key>>

(* C10: remove on a present key returns its stored value, deletes the key  *)
(* from data and from order, and leaves the values and the relative order  *)
(* of the remaining keys unchanged.                                        *)
C10_RemoveHit ==
    (last.op = "remove" /\ last.key \in HeldBefore) =>
        /\ last.ret = Some(last.pre.data[last.key])
        /\ last.key \notin Held
        /\ last.key \notin KeysOf(order)
        /\ Held = HeldBefore \ {last.key}
        /\ KeysOf(order) = KeysOf(last.pre.order) \ {last.key}
        /\ Len(order) = Len(last.pre.order) - 1
        /\ \A k \in Held : data[k] = last.pre.data[k]
        /\ SameRelativeOrder(order, last.pre.order, Held)

(* A remove of the most recent of three held keys. *)
C10_Witness ==
    /\ last.op = "remove"
    /\ last.key \in HeldBefore
    /\ Len(last.pre.order) >= 3
    /\ last.pre.order[1] = last.key

(* C11: remove on an absent key, also on an empty cache, returns None and  *)
(* leaves the whole cache unchanged, and removing the key again gives the  *)
(* same result and the same cache.                                         *)
C11_RemoveMiss ==
    (last.op = "remove" /\ last.key \notin HeldBefore) =>
        /\ last.ret = None
        /\ Self = last.pre
        /\ ~panics(last.pre, "remove", last.key)
        /\ remove(Self, last.key) = [cache |-> last.pre, ret |-> last.ret]

(* A remove of a key that is not held while other keys are. *)
C11_Witness ==
    /\ last.op = "remove"
    /\ last.key \notin HeldBefore
    /\ Len(last.pre.order) >= 2

(* C12: after clear() the cache is empty, its capacity is unchanged, and   *)
(* it is the cache new(capacity) builds, so every call on it returns what  *)
(* it returns on a fresh cache and leads to the same cache.                *)
C12_ClearResets ==
    last.op = "clear" =>
        /\ len(Self) = 0
        /\ is_empty(Self)
        /\ capacity = last.pre.capacity
        /\ Self = new(last.pre.capacity)
        /\ \A key \in Keys :
              /\ get(Self, key) = get(new(last.pre.capacity), key)
              /\ peek(Self, key) = peek(new(last.pre.capacity), key)
              /\ remove(Self, key) = remove(new(last.pre.capacity), key)
              /\ \A value \in Values :
                    insert(Self, key, value) = insert(new(last.pre.capacity), key, value)

(* A clear of a cache that held two keys or more. *)
C12_Witness ==
    /\ last.op = "clear"
    /\ len(last.pre) >= 2
    /\ capacity >= 2

(* C13: a cache built with new(0) is empty after every operation, its      *)
(* inserts return None and its gets, peeks and removes return None.        *)
C13_ZeroCapacity ==
    capacity = 0 =>
        /\ len(Self) = 0
        /\ is_empty(Self)
        /\ order = << >>
        /\ last.op \in {"insert", "get", "peek", "remove"} => last.ret = None
        /\ \A key \in Keys : get(Self, key).ret = None /\ peek(Self, key).ret = None

(* An insert into a cache of capacity 0, at the second call or later and   *)
(* after a call that touched another key.                                  *)
C13_Witness ==
    /\ capacity = 0
    /\ last.op = "insert"
    /\ stamp[last.key] >= 2
    /\ \E k \in Keys \ {last.key} : stamp[k] # 0

(* C14 as stated, one call at a time: a key that held a value before the   *)
(* last call and was neither evicted nor inserted again by it still yields *)
(* that value on get.                                                      *)
C14_RoundTrip_AsStated ==
    \A k \in HeldBefore :
        (k \notin KeysOf(last.popped) /\ ~(last.op = "insert" /\ last.key = k))
            => get(Self, k).ret = Some(last.pre.data[k])

(* C14, amended: after insert(k, v), as long as k has not been evicted,    *)
(* removed, cleared or inserted again, get(k) returns v.                   *)
C14_RoundTrip ==
    \A k \in Keys : written[k] # 0 => get(Self, k).ret = Some(written[k])

(* A key inserted at the second call or later that is still held after a   *)
(* later insert, get or remove of another key.                             *)
C14_Witness ==
    \E k \in Keys :
        /\ written[k] # 0
        /\ last.key # k
        /\ last.op \in {"insert", "get", "remove"}
        /\ \E j \in Keys : stamp[j] > stamp[k] /\ stamp[k] >= 2

(* C15 as stated: right after every insert(k, v), for every capacity, k is *)
(* at the most recently used position.                                     *)
C15_InsertIsFront_AsStated ==
    last.op = "insert" => (order # << >> /\ order[1] = last.key)

(* C15, amended: the same for every capacity >= 1 (a cache of capacity 0   *)
(* has an empty recency sequence after the insert).                        *)
C15_InsertIsFront ==
    (last.op = "insert" /\ capacity >= 1) => (order # << >> /\ order[1] = last.key)

(* An insert of a new key into a full cache of capacity >= 2. *)
C15_Witness ==
    /\ InsertedAbsent
    /\ capacity >= 2
    /\ len(last.pre) = capacity
    /\ order[1] = last.key

(* The held key with the oldest touch. *)
Oldest == CHOOSE k \in Held : \A j \in Held : stamp[k] <= stamp[j]

(* C16: in a full cache of capacity >= 2, right after a get hit on k, an   *)
(* insert of an absent key keeps k and removes the key whose last touch is *)
(* the oldest.                                                             *)
C16_GetProtects ==
    (last.op = "get" /\ last.key \in HeldBefore /\ capacity >= 2 /\ len(Self) = capacity) =>
        \A key \in Keys \ Held, value \in Values :
            LET r == insert(Self, key, value)
            IN  /\ last.key \in DOMAIN r.cache.data
                /\ Oldest # last.key
                /\ DOMAIN r.cache.data = (Held \ {Oldest}) \cup {key}

(* A get hit on the key that was next to be evicted, with a key left to    *)
(* insert.                                                                 *)
C16_Witness ==
    /\ last.op = "get"
    /\ last.key \in HeldBefore
    /\ capacity >= 2
    /\ len(Self) = capacity
    /\ last.pre.order[Len(last.pre.order)] = last.key
    /\ Keys \ Held # {}

OptionValues == {None} \cup {Some(v) : v \in Values}

(* C17: in every reachable state and for every key and value, insert, get, *)
(* peek, remove, len, is_empty and clear do not panic and return a value   *)
(* of their return type, for every capacity.                               *)
C17_Total ==
    /\ \A op \in {"new", "insert", "get", "peek", "remove", "len", "is_empty", "clear"} :
          \A key \in Keys : ~panics(Self, op, key)
    /\ \A key \in Keys :
          /\ get(Self, key).ret \in OptionValues
          /\ peek(Self, key).ret \in OptionValues
          /\ remove(Self, key).ret \in OptionValues
          /\ \A value \in Values : insert(Self, key, value).ret \in OptionValues
    /\ len(Self) \in 0..NumKeys
    /\ is_empty(Self) \in BOOLEAN
    /\ \A c \in Capacities : len(new(c)) = 0

(* A full cache of three keys, where get and insert reach Vec::remove. *)
C17_Witness ==
    /\ len(Self) >= 3
    /\ \E key \in Held : get(Self, key).cache.order # order

(* C18: no operation changes the capacity. *)
C18_CapacityFixed == capacity = last.pre.capacity

(* A clear and an evicting insert, the calls that shrink the cache. *)
C18_Witness ==
    /\ capacity >= 1
    /\ \/ last.op = "clear" /\ len(last.pre) >= 1
       \/ Overflowed

(* C26: the eviction loop runs at most one iteration per insert call, and  *)
(* no iteration when the inserted key was already present or the cache     *)
(* held fewer than capacity entries before the call; this holds for every  *)
(* capacity, 0 included.  last.popped has one key per iteration.           *)
C26_EvictionIterations ==
    last.op = "insert" =>
        /\ Len(last.popped) <= 1
        /\ (InsertedPresent \/ len(last.pre) < capacity) => last.popped = << >>

(* An insert of a new key into a full cache of capacity 2, where the loop  *)
(* ran exactly once.                                                       *)
C26_Witness ==
    /\ InsertedAbsent
    /\ capacity = 2
    /\ len(last.pre) = 2
    /\ Len(last.popped) = 1

(***************************************************************************)
(* commons::retry (src/src/retry.rs).  Durations are whole nanoseconds.    *)
(***************************************************************************)
(* Result<T, E> *)
Ok(value) == [ok |-> TRUE, val |-> value]
Err(e) == [ok |-> FALSE, val |-> e]

(* BackoffStrategy: one record shape for the four variants. *)
Backoff(kind, initial, increment, max, multiplier) ==
    [kind |-> kind, initial |-> initial, increment |-> increment,
     max |-> max, multiplier |-> multiplier]

(* The strategies the model runs retry with; the Linear and Exponential    *)
(* ones reach their maximum at attempt 1.                                  *)
Strategies ==
    { Backoff("None", 0, 0, 0, 0),
      Backoff("Constant", 8, 0, 0, 0),
      Backoff("Linear", 4, 4, 6, 0),
      Backoff("Exponential", 4, 0, 6, 2) }

(* i32::MAX.  The integers of the model are those of the i32 range, and   *)
(* every Duration a strategy names is at most I32Max nanoseconds.          *)
I32Max == 2147483647

(* A number above I32Max, whatever its exact value. *)
Beyond == -1

Times(x, y) ==
    IF x = 0 \/ y = 0 THEN 0
    ELSE IF x = Beyond \/ y = Beyond \/ x > I32Max \div y THEN Beyond
    ELSE x * y

Plus(x, y) ==
    IF x = Beyond \/ y = Beyond \/ x > I32Max - y THEN Beyond ELSE x + y

(* Duration::min(self, max) for a max of at most I32Max. *)
duration_min(x, max) == IF x = Beyond THEN max ELSE Min(x, max)

(* The usize hi * 2^31 + lo, with 0 <= lo <= I32Max. *)
USize(hi, lo) == [hi |-> hi, lo |-> lo]

usize_lt(a, b) == a.hi < b.hi \/ (a.hi = b.hi /\ a.lo < b.lo)

(* attempt as i32: the low 32 bits, read as two's complement. *)
as_i32(a) == IF a.hi % 2 = 1 THEN a.lo - I32Max - 1 ELSE a.lo

(* attempt as u32: the low 32 bits, again as hi * 2^31 + lo. *)
as_u32(a) == USize(a.hi % 2, a.lo)

(* m to the power k for integers m >= 1 and k >= 0; from k = 31 on every   *)
(* power of an m >= 2 is above I32Max.                                     *)
RECURSIVE Pow(_, _)
Pow(m, k) ==
    IF k = 0 \/ m = 1 THEN 1
    ELSE IF k >= 31 THEN Beyond
    ELSE Times(m, Pow(m, k - 1))

(* f64::powi for a multiplier that is a power of two, where powi is exact: *)
(* the f64 is mag when inv is FALSE and 1 / mag when inv is TRUE.          *)
powi(m, n) ==
    IF n >= 0
    THEN [inv |-> FALSE, mag |-> Pow(m, n)]
    ELSE [inv |-> TRUE, mag |-> Pow(m, IF n < -31 THEN 31 ELSE -n)]

(* (initial.as_nanos() as f64 * mult) as u64: the product truncated toward *)
(* zero; 0.0 * inf is NaN, which the cast turns into 0; a product below 1  *)
(* (also one that underflowed to 0.0) truncates to 0.                      *)
scaled_nanos(initial, mult) ==
    IF mult.inv
    THEN IF mult.mag = Beyond THEN 0 ELSE initial \div mult.mag
    ELSE Times(initial, mult.mag)

(* Variant of delay_for_attempt that leaves the exponential delay uncapped *)
(* (the Exponential arm without its final min with max).                  *)
delay_for_attempt_uncapped(b, attempt) ==
    CASE b.kind = "None" -> 0
      [] b.kind = "Constant" -> b.initial
      [] b.kind = "Linear" ->
            LET n == as_u32(attempt)
                factor == IF n.hi = 1 THEN Beyond ELSE n.lo
            IN  duration_min(Plus(b.initial, Times(b.increment, factor)), b.max)
      [] b.kind = "Exponential" ->
            scaled_nanos(b.initial, powi(b.multiplier, as_i32(attempt)))

(* BackoffStrategy::delay_for_attempt, in nanoseconds. *)
delay_for_attempt(b, attempt) ==
    CASE b.kind = "None" -> 0
      [] b.kind = "Constant" -> b.initial
      [] b.kind = "Linear" ->
            LET n == as_u32(attempt)
                factor == IF n.hi = 1 THEN Beyond ELSE n.lo
            IN  duration_min(Plus(b.initial, Times(b.increment, factor)), b.max)
      [] b.kind = "Exponential" ->
            duration_min(scaled_nanos(b.initial,
                                      powi(b.multiplier, as_i32(attempt))),
                         b.max)

(* simple_random() is (nanos % 1000) / 1000: the numerators it can yield. *)
RandomThousandths == 0..999

(* The jitter added to a delay: delay * (simple_random() * 0.25), truncated. *)
jitter_of(delay, r) == (delay * r) \div 4000

(* RetryConfig: every value of the three public fields. *)
RetryConfigs ==
    [max_attempts : 0..MaxAttempts, backoff : Strategies, jitter : BOOLEAN]

(* RetryConfig::max_attempts(self, n): the builder clamps n to at least 1. *)
max_attempts(config, n) ==
    [config EXCEPT !.max_attempts = IF n < 1 THEN 1 ELSE n]

(* RetryConfig::no_retry() *)
no_retry ==
    [max_attempts |-> 1, backoff |-> Backoff("None", 0, 0, 0, 0), jitter |-> FALSE]

(* RetryConfig::with_constant_delay(attempts, delay): attempts is stored   *)
(* as given.                                                               *)
with_constant_delay(attempts, delay) ==
    [max_attempts |-> attempts, backoff |-> Backoff("Constant", delay, 0, 0, 0),
     jitter |-> FALSE]

(* RetryConfig::with_exponential_backoff(attempts, initial, max): attempts *)
(* is stored as given.                                                     *)
with_exponential_backoff(attempts, initial, max) ==
    [max_attempts |-> attempts,
     backoff |-> Backoff("Exponential", initial, 0, max, 2), jitter |-> TRUE]

(* The configurations a caller can build: through the public fields, or    *)
(* through the constructors and the max_attempts builder.                  *)
BuildableConfigs ==
    RetryConfigs
    \cup {no_retry}
    \cup {max_attempts(c, n) : c \in RetryConfigs, n \in 0..MaxAttempts}
    \cup {with_constant_delay(n, 8) : n \in 0..MaxAttempts}
    \cup {with_exponential_backoff(n, 4, 6) : n \in 0..MaxAttempts}

(* The two entry points. *)
RetryFns == {"retry", "retry_with_context"}

(* retry / retry_with_context on entry: start taken, last_error = None,    *)
(* the loop at attempt 0.  calls lists the results of the operation's      *)
(* calls, args the arguments retry_with_context passed to them, slept the  *)
(* delays passed to thread::sleep, each with the number of the call it     *)
(* came after.                                                             *)
retry_enter(fn, config) ==
    [pc |-> "loop", fn |-> fn, config |-> config, attempt |-> 0,
     last_error |-> None, calls |-> << >>, args |-> << >>, slept |-> << >>,
     result |-> None, attempts |-> 0]

(* Variant of context_of that counts attempts from 1. *)
context_of_one_based(r) == r.attempt + 1

(* The argument of operation(attempt) in retry_with_context. *)
context_of(r) == r.attempt

(* The arguments seen after this call: retry calls operation() without one. *)
args_after(r) ==
    IF r.fn = "retry_with_context" THEN Append(r.args, context_of(r)) ELSE r.args

(* Variant of retry_ok that reports the 0-based attempt number. *)
retry_ok_zero_based(r, value) ==
    [r EXCEPT !.pc = "returned",
              !.calls = Append(@, Ok(value)),
              !.args = args_after(r),
              !.result = Some(Ok(value)),
              !.attempts = r.attempt]

(* The loop body when the operation returns Ok(value): return at once. *)
retry_ok(r, value) ==
    [r EXCEPT !.pc = "returned",
              !.calls = Append(@, Ok(value)),
              !.args = args_after(r),
              !.result = Some(Ok(value)),
              !.attempts = r.attempt + 1]

(* Variant of retry_delay that also sleeps after the last attempt          *)
(* (if attempt < config.max_attempts).                                     *)
retry_delay_after_last(config, attempt, rnd) ==
    IF attempt < config.max_attempts
    THEN LET delay == delay_for_attempt(config.backoff, USize(0, attempt))
         IN  IF config.jitter /\ delay > 0
             THEN delay + jitter_of(delay, rnd)
             ELSE delay
    ELSE 0

(* retry: the delay slept after a failed attempt that is not the last one, *)
(* with random numerator rnd; 0 when no sleep happens.                     *)
retry_delay(config, attempt, rnd) ==
    IF attempt + 1 < config.max_attempts
    THEN LET delay == delay_for_attempt(config.backoff, USize(0, attempt))
         IN  IF config.jitter /\ delay > 0
             THEN delay + jitter_of(delay, rnd)
             ELSE delay
    ELSE 0

(* retry_with_context: the same without jitter. *)
retry_with_context_delay(config, attempt) ==
    IF attempt + 1 < config.max_attempts
    THEN delay_for_attempt(config.backoff, USize(0, attempt))
    ELSE 0

(* The loop body when the operation returns Err(e): remember the error,    *)
(* sleep unless this was the last attempt, go on with the next attempt.    *)
retry_err(r, e, rnd) ==
    LET delay == IF r.fn = "retry"
                 THEN retry_delay(r.config, r.attempt, rnd)
                 ELSE retry_with_context_delay(r.config, r.attempt)
        slept == [after |-> Len(r.calls) + 1, delay |-> delay]
    IN  [r EXCEPT !.calls = Append(@, Err(e)),
                  !.args = args_after(r),
                  !.last_error = Some(e),
                  !.slept = IF delay > 0 THEN Append(@, slept) ELSE @,
                  !.attempt = r.attempt + 1]

(* After the loop: Err(last_error.expect(..)) with attempts = max_attempts; *)
(* expect panics when last_error is None.                                  *)
retry_end(r) ==
    IF r.last_error # None
    THEN [r EXCEPT !.pc = "returned",
                   !.result = Some(Err(r.last_error[1])),
                   !.attempts = r.config.max_attempts]
    ELSE [r EXCEPT !.pc = "panicked"]

InLoop == rt.pc = "loop" /\ rt.attempt < rt.config.max_attempts

InitRetry ==
    /\ capacity = 0
    /\ data = EmptyMap
    /\ order = << >>
    /\ last = [op |-> "new", key |-> 0, value |-> 0, ret |-> None,
               pre |-> new(0), popped |-> << >>]
    /\ clock = 0
    /\ stamp = [k \in Keys |-> 0]
    /\ written = [k \in Keys |-> 0]
    /\ \E fn \in RetryFns, config \in BuildableConfigs :
          rt = retry_enter(fn, config)
    /\ idgen = IdIdle
    /\ envs = EnvIdle

RetryOk ==
    /\ InLoop
    /\ \E value \in Values : rt' = retry_ok(rt, value)
    /\ UNCHANGED <<cacheVars, idgen, envs>>

RetryErr ==
    /\ InLoop
    /\ \E e \in Errors, rnd \in RandomThousandths : rt' = retry_err(rt, e, rnd)
    /\ UNCHANGED <<cacheVars, idgen, envs>>

RetryExhausted ==
    /\ rt.pc = "loop"
    /\ rt.attempt >= rt.config.max_attempts
    /\ rt.last_error # None
    /\ rt' = retry_end(rt)
    /\ UNCHANGED <<cacheVars, idgen, envs>>

RetryPanic ==
    /\ rt.pc = "loop"
    /\ rt.attempt >= rt.config.max_attempts
    /\ rt.last_error = None
    /\ rt' = retry_end(rt)
    /\ UNCHANGED <<cacheVars, idgen, envs>>

NextRetry == RetryOk \/ RetryErr \/ RetryExhausted \/ RetryPanic

SpecRetry == InitRetry /\ [][NextRetry]_vars

(* The strategies and attempt numbers delay_for_attempt is applied to: the *)
(* four variants, exponential strategies with multipliers 1, 2 and 4       *)
(* (100 ms doubling up to 2 s among them), and attempts on both sides of   *)
(* 2^31.                                                                   *)
BackoffInputs ==
    Strategies
    \cup {Backoff("Exponential", initial, 0, max, m) :
              initial \in {0, 1, 3, 100000000},
              max \in {0, 5, 2000000000},
              m \in {1, 2, 4}}

AttemptInputs == {USize(hi, lo) : hi \in 0..1, lo \in {0, 1, 2, 3, 4, 5, 10, I32Max}}

InitBackoff ==
    /\ capacity = 0
    /\ data = EmptyMap
    /\ order = << >>
    /\ last = [op |-> "new", key |-> 0, value |-> 0, ret |-> None,
               pre |-> new(0), popped |-> << >>]
    /\ clock = 0
    /\ stamp = [k \in Keys |-> 0]
    /\ written = [k \in Keys |-> 0]
    /\ \E b \in BackoffInputs, attempt \in AttemptInputs :
          rt = [pc |-> "call", backoff |-> b, attempt |-> attempt, delay |-> None]
    /\ idgen = IdIdle
    /\ envs = EnvIdle

(* strategy.delay_for_attempt(attempt) *)
DelayForAttempt ==
    /\ rt.pc = "call"
    /\ rt' = [rt EXCEPT !.pc = "delayed",
                        !.delay = Some(delay_for_attempt(rt.backoff, rt.attempt))]
    /\ UNCHANGED <<cacheVars, idgen, envs>>

NextBackoff == DelayForAttempt

SpecBackoff == InitBackoff /\ [][NextBackoff]_vars

AllFailed == \A n \in 1..Len(rt.calls) : ~rt.calls[n].ok

(* C19: retry stops at the first success: a call that returns Ok is the    *)
(* last call made, every call before it failed, and retry has returned Ok  *)
(* with that value and attempts equal to the number of calls.              *)
C19_StopsAtFirstSuccess ==
    \A n \in 1..Len(rt.calls) :
        rt.calls[n].ok =>
            /\ n = Len(rt.calls)
            /\ n <= rt.config.max_attempts
            /\ \A j \in 1..(n - 1) : ~rt.calls[j].ok
            /\ rt.pc = "returned"
            /\ rt.result = Some(Ok(rt.calls[n].val))
            /\ rt.attempts = n

(* A success at the third call, after two failures and their sleeps. *)
C19_Witness ==
    /\ rt.pc = "returned"
    /\ Len(rt.calls) = 3
    /\ rt.calls[3].ok
    /\ ~rt.calls[1].ok /\ ~rt.calls[2].ok
    /\ Len(rt.slept) = 2

(* C20: when the operation fails on every call, retry ends by returning    *)
(* Err with the error of the last call, after exactly max_attempts calls   *)
(* and with attempts = max_attempts.                                       *)
C20_Exhaustion ==
    (rt.pc \in {"returned", "panicked"} /\ AllFailed) =>
        /\ rt.pc = "returned"
        /\ Len(rt.calls) = rt.config.max_attempts
        /\ rt.result = Some(Err(rt.calls[Len(rt.calls)].val))
        /\ rt.attempts = rt.config.max_attempts

Returned == rt.pc = "returned"

Ended == rt.pc \in {"returned", "panicked"}

(* C22: with a Linear or Exponential backoff of maximum max, every delay   *)
(* retry sleeps between two attempts is at most max, with or without       *)
(* jitter.                                                                 *)
C22_MaximumDelay ==
    (rt.fn = "retry" /\ rt.config.backoff.kind \in {"Linear", "Exponential"}) =>
        \A n \in 1..Len(rt.slept) : rt.slept[n].delay <= rt.config.backoff.max

(* C24: a sleep happens only after a failed call that another call         *)
(* follows: it never comes after a success or after the max_attempts-th    *)
(* failure, and once retry or retry_with_context has ended there are at    *)
(* most (number of calls - 1) sleeps.                                      *)
C24_NoSleepAfterLast ==
    /\ \A n \in 1..Len(rt.slept) :
          LET after == rt.slept[n].after
          IN  /\ after \in 1..Len(rt.calls)
              /\ ~rt.calls[after].ok
              /\ after < rt.config.max_attempts
              /\ after < Len(rt.calls) \/ InLoop
              /\ n > 1 => rt.slept[n - 1].after < after
    /\ (Ended /\ rt.calls # << >>) => Len(rt.slept) <= Len(rt.calls) - 1
    /\ Len(rt.slept) <= Len(rt.calls)

(* retry_with_context made three failing calls and slept after the first   *)
(* and the second, not after the third.                                    *)
C24_Witness ==
    /\ Returned
    /\ rt.fn = "retry_with_context"
    /\ Len(rt.calls) = 3
    /\ AllFailed
    /\ Len(rt.slept) = 2
    /\ rt.slept[2].after = 2

(* C27: for every configuration a caller can build, retry and              *)
(* retry_with_context call the operation at least once before they end,    *)
(* and the final expect does not panic.                                    *)
C27_AtLeastOneAttempt ==
    Ended => (Len(rt.calls) >= 1 /\ rt.pc # "panicked")

(* C28: retry_with_context passes the 0-based attempt number: the k-th     *)
(* call receives k - 1, and the attempts it returns is the last argument   *)
(* plus one.                                                               *)
C28_ContextIsAttempt ==
    rt.fn = "retry_with_context" =>
        /\ Len(rt.args) = Len(rt.calls)
        /\ \A k \in 1..Len(rt.args) : rt.args[k] = k - 1
        /\ Returned => rt.attempts = rt.args[Len(rt.args)] + 1

(* retry_with_context returned Ok from its third call, after the           *)
(* arguments 0, 1, 2.                                                      *)
C28_Witness ==
    /\ Returned
    /\ rt.fn = "retry_with_context"
    /\ rt.args = <<0, 1, 2>>
    /\ rt.calls[3].ok
    /\ rt.attempts = 3

(* min(initial * m^n, max) in exact arithmetic, for the usize n: with      *)
(* n >= 2^31 the power of an m >= 2 is above every max of the model.       *)
CappedPower(b, n) ==
    IF n.hi = 0
    THEN duration_min(Times(b.initial, Pow(b.multiplier, n.lo)), b.max)
    ELSE IF b.initial = 0 THEN 0
    ELSE IF b.multiplier = 1 THEN Min(b.initial, b.max)
    ELSE b.max

(* C21: for an Exponential strategy with an integer multiplier m >= 1,     *)
(* delay_for_attempt(n) = min(initial * m^n, max) for every attempt n, so  *)
(* the delay never exceeds max and is not below the delay of any earlier   *)
(* attempt.                                                                *)
C21_ExponentialCapped ==
    (rt.pc = "delayed" /\ rt.backoff.kind = "Exponential") =>
        /\ rt.delay = Some(CappedPower(rt.backoff, rt.attempt))
        /\ rt.delay[1] <= rt.backoff.max
        /\ \A earlier \in AttemptInputs :
              usize_lt(earlier, rt.attempt) =>
                  delay_for_attempt(rt.backoff, earlier) <= rt.delay[1]

(***************************************************************************)
(* commons::id (src/src/id.rs): generate_timestamp_id and the COUNTER it   *)
(* shares with the other generators.  Strings are sequences of decimal     *)
(* digits.                                                                 *)
(***************************************************************************)
(* The cache is not used by the other modules. *)
NoCache ==
    /\ capacity = 0
    /\ data = EmptyMap
    /\ order = << >>
    /\ last = [op |-> "new", key |-> 0, value |-> 0, ret |-> None,
               pre |-> new(0), popped |-> << >>]
    /\ clock = 0
    /\ stamp = [k \in Keys |-> 0]
    /\ written = [k \in Keys |-> 0]

Threads == 1..NumThreads

(* COUNTER.fetch_add(1, SeqCst) % 10_000_000 *)
CounterModulus == 10000000

(* The widths of {:013} and {:07}. *)
TimestampWidth == 13
CounterWidth == 7

(* The values COUNTER can hold when the model starts: 0 in a fresh         *)
(* process, or the count of the generator calls the process made before.   *)
CounterStarts == {0, CounterModulus - 2}

(* The decimal digits of n, most significant first. *)
RECURSIVE decimal(_)
decimal(n) == IF n < 10 THEN <<n>> ELSE Append(decimal(n \div 10), n % 10)

zeros(n) == [i \in 1..n |-> 0]

(* {:0width}: at least width digits, zeros on the left. *)
pad(n, width) ==
    LET d == decimal(n)
    IN  IF Len(d) >= width THEN d ELSE zeros(width - Len(d)) \o d

(* format!("{:013}{:07}", timestamp, counter % 10_000_000), counter being  *)
(* the value fetch_add returned.                                           *)
timestamp_id(timestamp, counter) ==
    pad(timestamp, TimestampWidth) \o pad(counter % CounterModulus, CounterWidth)

(* str < str: lexicographic, a proper prefix being smaller. *)
RECURSIVE str_lt(_, _)
str_lt(a, b) ==
    IF b = << >> THEN FALSE
    ELSE IF a = << >> THEN TRUE
    ELSE IF Head(a) # Head(b) THEN Head(a) < Head(b)
    ELSE str_lt(Tail(a), Tail(b))

ThreadIdle == [pc |-> "idle", timestamp |-> 0, began |-> 0]

InFlight == Cardinality({t \in Threads : idgen.th[t].pc # "idle"})

InitId ==
    /\ NoCache
    /\ rt = RetryIdle
    /\ envs = EnvIdle
    /\ \E c \in CounterStarts :
          idgen = [pc |-> "run", counter |-> c, other |-> 0, now |-> 0,
                   th |-> [t \in Threads |-> ThreadIdle], issued |-> << >>]

(* A thread enters generate_timestamp_id and reads the clock:              *)
(* let timestamp = current_timestamp_millis().  began is the number of     *)
(* IDs returned before this call began.                                    *)
ReadTimestamp(t) ==
    /\ idgen.th[t].pc = "idle"
    /\ Len(idgen.issued) + InFlight < MaxIds
    /\ idgen' = [idgen EXCEPT !.th[t] = [pc |-> "stamped",
                                          timestamp |-> idgen.now,
                                          began |-> Len(idgen.issued)]]
    /\ UNCHANGED <<cacheVars, rt, envs>>

(* The thread takes its counter, formats the ID and returns it. *)
FetchAdd(t) ==
    /\ idgen.th[t].pc = "stamped"
    /\ idgen' = [idgen EXCEPT
                    !.counter = @ + 1,
                    !.issued = Append(@, [id |-> timestamp_id(idgen.th[t].timestamp,
                                                              idgen.counter),
                                          began |-> idgen.th[t].began,
                                          thread |-> t]),
                    !.th[t] = ThreadIdle]
    /\ UNCHANGED <<cacheVars, rt, envs>>

(* Another generator (generate_random_hex, generate_short_id,              *)
(* generate_uuid_like) runs fill_random_bytes, which takes a counter too.  *)
FillRandomBytes ==
    /\ idgen.other < MaxOtherIds
    /\ idgen' = [idgen EXCEPT !.counter = @ + 1, !.other = @ + 1]
    /\ UNCHANGED <<cacheVars, rt, envs>>

(* The wall clock reaches the next millisecond. *)
Tick ==
    /\ idgen.now < MaxMillis
    /\ idgen' = [idgen EXCEPT !.now = @ + 1]
    /\ UNCHANGED <<cacheVars, rt, envs>>

NextId ==
    \/ \E t \in Threads : ReadTimestamp(t)
    \/ \E t \in Threads : FetchAdd(t)
    \/ FillRandomBytes
    \/ Tick

SpecId == InitId /\ [][NextId]_vars

(* C23: any two IDs generate_timestamp_id returned differ, and an ID whose *)
(* call began after another ID was returned compares greater as a string   *)
(* than that ID: within one millisecond, across threads, and with other    *)
(* generators taking counters in between.                                  *)
C23_UniqueAndSortable ==
    \A i, j \in 1..Len(idgen.issued) :
        i < j =>
            /\ idgen.issued[i].id # idgen.issued[j].id
            /\ idgen.issued[j].began >= i =>
                    str_lt(idgen.issued[i].id, idgen.issued[j].id)

(***************************************************************************)
(* commons::env (src/src/env.rs): get_environment and is_development.      *)
(* Strings are sequences of one-character strings.                         *)
(***************************************************************************)
EnvKeys == <<"ENV", "ENVIRONMENT", "RUST_ENV", "APP_ENV">>

Development == <<"d", "e", "v", "e", "l", "o", "p", "m", "e", "n", "t">>

Dev == <<"d", "e", "v">>

(* The values the model gives a variable: empty, lower case, upper case    *)
(* and mixed case.                                                         *)
EnvStrings == { << >>, Dev, <<"D", "E", "V">>, <<"P", "r", "o", "d">> }

(* A variable of the process environment: absent, present with a value     *)
(* that is not valid Unicode, or present with a string.                    *)
Unset == [state |-> "unset", value |-> << >>]
NotUnicode == [state |-> "not_unicode", value |-> << >>]
SetTo(string) == [state |-> "set", value |-> string]

EnvStates == {Unset, NotUnicode} \cup {SetTo(string) : string \in EnvStrings}

Environments == [1..Len(EnvKeys) -> EnvStates]

(* std::env::var(key): Err for an absent or a non-Unicode variable. *)
env_var(environ, i) ==
    IF environ[i].state = "set" THEN Ok(environ[i].value) ELSE Err(environ[i].state)

(* Variant of get_string that keeps an empty value (env::var(key).ok()). *)
get_string_keep_empty(environ, i) ==
    LET v == env_var(environ, i)
    IN  IF v.ok THEN Some(v.val) ELSE None

(* get_string(key): env::var(key).ok().filter(|s| !s.is_empty()) *)
get_string(environ, i) ==
    LET v == env_var(environ, i)
    IN  IF v.ok /\ v.val # << >> THEN Some(v.val) ELSE None

(* char::to_lowercase on the letters of the model. *)
lower_char(c) ==
    CASE c = "D" -> "d"
      [] c = "E" -> "e"
      [] c = "V" -> "v"
      [] c = "P" -> "p"
      [] OTHER -> c

(* str::to_lowercase *)
to_lowercase(string) == [n \in 1..Len(string) |-> lower_char(string[n])]

(* The loop of get_environment from the i-th key on. *)
RECURSIVE get_environment_from(_, _)
get_environment_from(environ, i) ==
    IF i > Len(EnvKeys) THEN Development
    ELSE LET env == get_string(environ, i)
         IN  IF env # None THEN to_lowercase(env[1])
             ELSE get_environment_from(environ, i + 1)

get_environment(environ) == get_environment_from(environ, 1)

is_development(environ) ==
    LET env == get_environment(environ)
    IN  env = Development \/ env = Dev \/ env = << >>

InitEnv ==
    /\ NoCache
    /\ rt = RetryIdle
    /\ idgen = IdIdle
    /\ \E environ \in Environments :
          envs = [pc |-> "ready", environ |-> environ, ret |-> None]

GetEnvironment ==
    /\ envs.pc = "ready"
    /\ envs' = [envs EXCEPT !.pc = "get_environment",
                            !.ret = Some(get_environment(envs.environ))]
    /\ UNCHANGED <<cacheVars, rt, idgen>>

IsDevelopment ==
    /\ envs.pc = "ready"
    /\ envs' = [envs EXCEPT !.pc = "is_development",
                            !.ret = Some(is_development(envs.environ))]
    /\ UNCHANGED <<cacheVars, rt, idgen>>

NextEnv == GetEnvironment \/ IsDevelopment

SpecEnv == InitEnv /\ [][NextEnv]_vars

(* The i-th variable is set (env::var succeeds) and non-empty. *)
SetNonEmpty(i) ==
    envs.environ[i].state = "set" /\ envs.environ[i].value # << >>

(* string is value in lower case: the same letters, none of them capital.  *)
IsLowerCased(string, value) ==
    /\ Len(string) = Len(value)
    /\ \A n \in 1..Len(value) :
          /\ string[n] \notin {"D", "E", "V", "P"}
          /\ string[n] = value[n] \/ <<value[n], string[n]>> \in
                {<<"D", "d">>, <<"E", "e">>, <<"V", "v">>, <<"P", "p">>}

(* C25: get_environment returns the lower-cased value of the first of ENV, *)
(* ENVIRONMENT, RUST_ENV, APP_ENV that is set and non-empty, and           *)
(* "development" when none is; it never returns an empty string, and       *)
(* is_development() is true when no variable is set.                       *)
C25_GetEnvironment ==
    /\ envs.pc = "get_environment" =>
          /\ envs.ret[1] # << >>
          /\ \A i \in 1..Len(EnvKeys) :
                (SetNonEmpty(i) /\ \A j \in 1..(i - 1) : ~SetNonEmpty(j)) =>
                    IsLowerCased(envs.ret[1], envs.environ[i].value)
          /\ (\A i \in 1..Len(EnvKeys) : ~SetNonEmpty(i)) =>
                envs.ret[1] = Development
    /\ (envs.pc = "is_development"
          /\ \A i \in 1..Len(EnvKeys) : envs.environ[i] = Unset) =>
          envs.ret = Some(TRUE)

(* ENV is absent, ENVIRONMENT is empty, RUST_ENV is "Prod" and APP_ENV is  *)
(* "dev": get_environment returned "prod".                                 *)
C25_Witness ==
    /\ envs.pc = "get_environment"
    /\ envs.environ = <<Unset, SetTo(<< >>), SetTo(<<"P", "r", "o", "d">>), SetTo(Dev)>>
    /\ envs.ret = Some(<<"p", "r", "o", "d">>)

====
